---- MODULE Spec2Model ----
(***************************************************************************)
(* teecp: a line-oriented network tee (src/main.go).                       *)
(*                                                                         *)
(* Spec        the hub (serverTeecp), its acceptor goroutine               *)
(*             (acceptNewConns), the registry teecp.Clients it shares with *)
(*             the hub's input loop, and the connections listeners make.   *)
(* SpecStream  Spec together with the listeners (listenerTeecp) reading    *)
(*             the byte streams the hub writes.                            *)
(* SpecConnect the retry connector (connectSocket) against a target that   *)
(*             starts to accept connections at some time, with a clock.    *)
(*                                                                         *)
(* The package github.com/jeffque/teecp/teecp (type Clients, its Attach    *)
(* and Broadcast) is not part of src/; Attach, Remove and the Broadcast*   *)
(* steps below follow the registry contract of spec.md, section 4.1 and 5. *)
(***************************************************************************)
EXTENDS Integers, Sequences, FiniteSets, TLC

(* ------------------------------ bounds -------------------------------- *)

\* Number of listeners (remote connections) that may dial the hub.
MaxConns == 2

\* Number of lines the hub reads from its input and broadcasts.
MaxBroadcasts == 2

\* Largest waitConnection and retryInterval, in ticks of the clock.
MaxWait == 3
MaxInterval == 3

\* Latest time at which the target starts or stops to accept connections.
MaxTargetTime == 3

\* Longest time an accepted net.Dial takes, and longest time time.Sleep
\* oversleeps, in ticks.
MaxDialTime == 1
MaxOversleep == 1

\* Cap on the dial attempts of one connectSocket call. With a positive
\* retryInterval the time budget ends the loop before the cap is met.
MaxAttempts == 7

(* ------------------------------ values -------------------------------- *)

NL == "\n"

\* The lines bufio.Reader.ReadString('\n') can hand to the hub without an
\* error: a run of bytes other than '\n', closed by one '\n'.
Lines == { <<NL>>, <<"a", NL>> }

\* Sink identities: 0 is the local echo sink, c in Conns is the remote sink
\* wrapping the connection of listener c.
LocalSink == 0
Conns == 1..MaxConns
Sinks == {LocalSink} \cup Conns

VARIABLES
    \* hub driver (serverTeecp)
    hpc,        \* position of the hub goroutine
    txt,        \* the line read by the hub's last ReadString
    lnOpen,     \* the listening socket ln accepts connections
    quit,       \* the channel quit has been closed
    \* registry (teecp.Clients)
    clients,    \* the live sinks, in registry order
    mu,         \* who holds the registry's lock: "free" or "hub"
    idx,        \* Broadcast's position in clients during a pass
    \* acceptor goroutine (acceptNewConns)
    apc,        \* position of the acceptor goroutine
    conn,       \* the connection the last Accept returned
    \* connections
    backlog,    \* connections established by the kernel, not yet accepted
    hubEnd,     \* hub's end of each connection: "none", "backlog", "open",
                \* "closed" (by Close or process exit), "reset" (never accepted)
    wire,       \* bytes written by the hub and not yet read by the listener
    \* listeners (listenerTeecp)
    lpc,        \* position of each listener: "idle", "refused", "connected",
                \* "reading", "eof", "gone"
    out,        \* what each listener printed to its os.Stdout, print by print
    \* observation (history) variables
    stdout,     \* what the local echo sink printed, print by print
    bcastLog,   \* the lines passed to Broadcast, call by call
    recv,       \* per sink, the deliver invocations: [call, msg, ok]
    werr,       \* per connection: a write to it returned an error
    attachedAt, \* per sink: number of Broadcast calls begun when its Attach
                \* completed (-1: not attached)
    connectedAt,\* per listener: number of Broadcast calls begun when it entered
                \* its read loop, connected (-1: not yet)
    lateAttach, \* number of sinks the acceptor attached after quit was closed
    accErrAt,   \* number of Broadcast calls begun when ln.Accept returned an
                \* error (-1: it has not)
    \* retry connector (connectSocket), its clock and its target
    cpc,            \* position of connectSocket
    now,            \* the clock, in ticks
    start,          \* start := time.Now()
    waitConnection, \* appState.waitConnection, in ticks
    retryInterval,  \* appState.retryInterval, in ticks
    targetUpAt,     \* the target accepts connections from this time (-1: never)
    targetDownAt,   \* ... until this time (-1: for ever)
    cconn,          \* the variable conn: the attempt that made it, 0 for nil
    cerr,           \* the variable err: TRUE for an error, FALSE for nil
    ret,            \* what connectSocket returned
    dials,          \* observation: the outcome of every net.Dial so far
    sawExpired,     \* observation: a check found time.Since(start) > waitConnection
    \* command line (main) and role configuration
    fpc,            \* position of main: "off", "parse", "exit", "server", "client"
    serverClientSetted, \* the variable serverClientSetted, an appState
    nargs,          \* number of flags flag.Parse has handled
    lastFlag,       \* observation: the flag handled last, and how it ended
    givenWait,      \* observation: the last --wait-connection value accepted
    givenRetry      \* observation: the last --retry-interval value accepted

hubVars == <<hpc, txt, lnOpen, quit>>
regVars == <<clients, mu, idx>>
accVars == <<apc, conn>>
netVars == <<backlog, hubEnd, wire>>
lisVars == <<lpc, out>>
accObs == <<lateAttach, accErrAt>>
obsVars == <<stdout, bcastLog, recv, werr, attachedAt, connectedAt, accObs>>
conVars == <<cpc, now, start, waitConnection, retryInterval, targetUpAt,
             targetDownAt, cconn, cerr, ret, dials, sawExpired>>
flagVars == <<fpc, serverClientSetted, nargs, lastFlag, givenWait, givenRetry>>
vars == <<hubVars, regVars, accVars, netVars, lisVars, obsVars, conVars, flagVars>>

\* connectSocket has not returned.
NoResult == [conn |-> 0, err |-> FALSE, returned |-> FALSE]

(* ------------------------- sequence helpers --------------------------- *)

RemoveAt(s, i) == SubSeq(s, 1, i - 1) \o SubSeq(s, i + 1, Len(s))

IsPrefix(s, t) == Len(s) <= Len(t) /\ SubSeq(t, 1, Len(s)) = s

Range(s) == { s[i] : i \in 1..Len(s) }

(* ------------------- registry: teecp.Clients (spec.md 4.1) ------------ *)

\* Clients.Attach: appends the sink to the live set.
Attach(reg, s) == Append(reg, s)

\* Removal of the sink at position i, on a failed deliver.
Remove(reg, i) == RemoveAt(reg, i)

\* Number of Broadcast calls begun so far; the current call's number.
CallNo == Len(bcastLog)

(* ---------------- sinks (serverTeecp 181-184, acceptNewConns 229-235) -- *)

\* Listener c holds its end of an established connection.
Present(c) == lpc[c] \in {"connected", "reading"}

\* A write on connection c can succeed: the hub's end is open. (The bytes
\* reach the listener only when it still reads and the connection is whole.)
WriteCanSucceed(c) == hubEnd[c] = "open"

\* A write on connection c can return an error: the hub's end is closed, or
\* the listener has left (it returned, was killed, or the network failed).
WriteCanFail(c) == hubEnd[c] # "open" \/ ~Present(c)

\* The bytes of msg arrive in the listener's stream.
Arrives(c) == hubEnd[c] = "open" /\ Present(c)

\* One deliver invocation, as observed: the call it belongs to, the bytes
\* the sink wrote (or tried to), and the result it returned.
Delivery(msg, res) == [call |-> CallNo, msg |-> msg, ok |-> res]

\* Variant: the remote sink reports success whatever the write returned.
RemoteSinkReturnsTrue(wok) == TRUE

\* The remote sink's result: false exactly when fmt.Fprint(conn, msg) erred.
RemoteSinkReturn(wok) == wok

\* Variant: on a write error the remote sink returns without conn.Close().
RemoteSinkLeavesOpen(c, msg, wok) ==
    /\ wire' = IF wok /\ Arrives(c) THEN [wire EXCEPT ![c] = @ \o msg] ELSE wire
    /\ werr' = IF wok THEN werr ELSE [werr EXCEPT ![c] = TRUE]
    /\ recv' = [recv EXCEPT ![c] = Append(@, Delivery(msg, RemoteSinkReturn(wok)))]
    /\ UNCHANGED <<hubEnd, stdout>>

\* The remote sink's effect: fmt.Fprint(conn, msg); on error conn.Close().
RemoteSinkEffect(c, msg, wok) ==
    /\ wire' = IF wok /\ Arrives(c) THEN [wire EXCEPT ![c] = @ \o msg] ELSE wire
    /\ hubEnd' = IF wok THEN hubEnd ELSE [hubEnd EXCEPT ![c] = "closed"]
    /\ werr' = IF wok THEN werr ELSE [werr EXCEPT ![c] = TRUE]
    /\ recv' = [recv EXCEPT ![c] = Append(@, Delivery(msg, RemoteSinkReturn(wok)))]
    /\ UNCHANGED stdout

\* Variant: the local echo sink prints with fmt.Println, adding a newline.
LocalSinkPrintln(msg) ==
    /\ stdout' = Append(stdout, msg \o <<NL>>)
    /\ recv' = [recv EXCEPT ![LocalSink] = Append(@, Delivery(msg \o <<NL>>, TRUE))]
    /\ UNCHANGED <<wire, hubEnd, werr>>

\* The local echo sink: fmt.Print(msg); return true.
LocalSinkEffect(msg) ==
    /\ stdout' = Append(stdout, msg)
    /\ recv' = [recv EXCEPT ![LocalSink] = Append(@, Delivery(msg, TRUE))]
    /\ UNCHANGED <<wire, hubEnd, werr>>

(* --------------------------- hub: serverTeecp ------------------------- *)

\* Variant: the hub goes on to listen without attaching the local echo sink.
HubSkipsLocalSink ==
    /\ hpc = "attachLocal"
    /\ hpc' = "listen"
    /\ UNCHANGED <<txt, lnOpen, quit, regVars, accVars, netVars, lisVars,
                   obsVars, conVars, flagVars>>

\* clients := teecp.Clients{}; clients.Attach(local echo sink)
HubAttachLocal ==
    /\ hpc = "attachLocal"
    /\ clients' = Attach(clients, LocalSink)
    /\ attachedAt' = [attachedAt EXCEPT ![LocalSink] = CallNo]
    /\ hpc' = "listen"
    /\ UNCHANGED <<txt, lnOpen, quit, mu, idx, accVars, netVars, lisVars,
                   stdout, bcastLog, recv, werr, connectedAt, accObs, conVars, flagVars>>

\* ln, err := net.Listen(...): success; defer ln.Close(); quit := make(chan)
HubListen ==
    /\ hpc = "listen"
    /\ lnOpen' = TRUE
    /\ hpc' = "spawn"
    /\ UNCHANGED <<txt, quit, regVars, accVars, netVars, lisVars, obsVars, conVars, flagVars>>

\* net.Listen fails: return the error (no defer is registered yet).
HubListenFail ==
    /\ hpc = "listen"
    /\ hpc' = "return"
    /\ UNCHANGED <<txt, lnOpen, quit, regVars, accVars, netVars, lisVars,
                   obsVars, conVars, flagVars>>

\* go acceptNewConns(ln, &clients, quit)
HubSpawn ==
    /\ hpc = "spawn"
    /\ apc' = "select"
    /\ hpc' = "read"
    /\ UNCHANGED <<txt, lnOpen, quit, regVars, conn, netVars, lisVars, obsVars,
                   conVars, flagVars>>

\* txt, err := reader.ReadString('\n') with err == nil; clients.Broadcast(txt)
\* is called (the call begins; its pass starts once the lock is taken).
HubReadLine(l) ==
    /\ hpc = "read"
    /\ CallNo < MaxBroadcasts
    /\ txt' = l
    /\ bcastLog' = Append(bcastLog, l)
    /\ hpc' = "lock"
    /\ UNCHANGED <<lnOpen, quit, regVars, accVars, netVars, lisVars, stdout,
                   recv, werr, attachedAt, connectedAt, accObs, conVars, flagVars>>

\* ReadString returns io.EOF (break) or another error (return err): in both
\* cases serverTeecp returns and its deferred calls run.
HubReadEnd ==
    /\ hpc = "read"
    /\ hpc' = "closeQuit"
    /\ UNCHANGED <<txt, lnOpen, quit, regVars, accVars, netVars, lisVars,
                   obsVars, conVars, flagVars>>

\* Broadcast takes the registry's lock and starts its pass.
BroadcastLock ==
    /\ hpc = "lock"
    /\ mu = "free"
    /\ mu' = "hub"
    /\ idx' = 1
    /\ hpc' = "pass"
    /\ UNCHANGED <<txt, lnOpen, quit, clients, accVars, netVars, lisVars,
                   obsVars, conVars, flagVars>>

\* One step of the pass: deliver the line to the sink at idx; a sink that
\* returns false is removed, and the pass goes on with its successor.
BroadcastDeliver ==
    /\ hpc = "pass"
    /\ idx <= Len(clients)
    /\ LET s == clients[idx] IN
       \E wok \in BOOLEAN :
          LET res == IF s = LocalSink THEN TRUE ELSE RemoteSinkReturn(wok) IN
          /\ s # LocalSink => (wok => WriteCanSucceed(s)) /\ (~wok => WriteCanFail(s))
          /\ s = LocalSink => wok
          /\ IF s = LocalSink THEN LocalSinkEffect(txt)
                              ELSE RemoteSinkEffect(s, txt, wok)
          /\ IF res THEN idx' = idx + 1 /\ UNCHANGED clients
                    ELSE idx' = idx /\ clients' = Remove(clients, idx)
    /\ UNCHANGED <<hubVars, mu, accVars, backlog, lisVars, bcastLog,
                   attachedAt, connectedAt, accObs, conVars, flagVars>>

\* The pass is over: Broadcast releases the lock and returns (no result).
BroadcastUnlock ==
    /\ hpc = "pass"
    /\ idx > Len(clients)
    /\ mu' = "free"
    /\ hpc' = "read"
    /\ UNCHANGED <<txt, lnOpen, quit, clients, idx, accVars, netVars, lisVars,
                   obsVars, conVars, flagVars>>

\* deferred close(quit)
HubCloseQuit ==
    /\ hpc = "closeQuit"
    /\ quit' = TRUE
    /\ hpc' = "closeLn"
    /\ UNCHANGED <<txt, lnOpen, regVars, accVars, netVars, lisVars, obsVars,
                   conVars, flagVars>>

\* Variant: the hub returns without closing its listening socket.
HubLeavesLnOpen ==
    /\ hpc = "closeLn"
    /\ hpc' = "return"
    /\ UNCHANGED <<txt, lnOpen, quit, regVars, accVars, netVars, lisVars,
                   obsVars, conVars, flagVars>>

\* deferred ln.Close(): connections still in the backlog are reset.
HubCloseLn ==
    /\ hpc = "closeLn"
    /\ lnOpen' = FALSE
    /\ backlog' = <<>>
    /\ hubEnd' = [c \in Conns |-> IF hubEnd[c] = "backlog" THEN "reset" ELSE hubEnd[c]]
    /\ hpc' = "return"
    /\ UNCHANGED <<txt, quit, regVars, accVars, wire, lisVars, obsVars, conVars, flagVars>>

\* main returns (or os.Exit(1)): the process ends, the acceptor goroutine
\* with it, and the kernel closes every socket of the hub.
HubExit ==
    /\ hpc = "return"
    /\ hpc' = "exited"
    /\ apc' = "dead"
    /\ hubEnd' = [c \in Conns |-> IF hubEnd[c] = "open" THEN "closed" ELSE hubEnd[c]]
    /\ UNCHANGED <<txt, lnOpen, quit, regVars, conn, backlog, wire,
                   lisVars, obsVars, conVars, flagVars>>


(* --------------------- acceptor: acceptNewConns ----------------------- *)

\* Variant: the acceptor goes to Accept without looking at quit.
AccSelectIgnoresQuit ==
    /\ apc = "select"
    /\ apc' = "accept"
    /\ UNCHANGED <<hubVars, regVars, conn, netVars, lisVars, obsVars, conVars,
                   flagVars>>

\* select { case <-quit: break LOOP; default: ... }: a closed channel is
\* ready to receive, so the default branch runs only while quit is open.
AccSelect ==
    /\ apc = "select"
    /\ apc' = IF quit THEN "done" ELSE "accept"
    /\ UNCHANGED <<hubVars, regVars, conn, netVars, lisVars, obsVars, conVars, flagVars>>

\* conn, err := ln.Accept() with err == nil: the oldest pending connection.
AccAccept ==
    /\ apc = "accept"
    /\ lnOpen
    /\ backlog # <<>>
    /\ conn' = Head(backlog)
    /\ backlog' = Tail(backlog)
    /\ hubEnd' = [hubEnd EXCEPT ![Head(backlog)] = "open"]
    /\ apc' = "attach"
    /\ UNCHANGED <<hubVars, regVars, wire, lisVars, obsVars, conVars, flagVars>>

\* Variant: on an Accept error the acceptor reports it and continues its loop.
AccAcceptErrContinues ==
    /\ apc = "accept"
    /\ apc' = "select"
    /\ accErrAt' = CallNo
    /\ UNCHANGED <<hubVars, regVars, conn, netVars, lisVars, stdout, bcastLog,
                   recv, werr, attachedAt, connectedAt, lateAttach, conVars,
                   flagVars>>

\* ln.Accept() returns an error (the socket was closed by the hub, or the
\* system refused, e.g. out of descriptors): report it and return.
AccAcceptErr ==
    /\ apc = "accept"
    /\ apc' = "done"
    /\ accErrAt' = CallNo
    /\ UNCHANGED <<hubVars, regVars, conn, netVars, lisVars, stdout, bcastLog,
                   recv, werr, attachedAt, connectedAt, lateAttach, conVars,
                   flagVars>>

\* Variant: the acceptor's Attach returns with the registry's lock held.
AccAttachKeepsLock ==
    /\ apc = "attach"
    /\ mu = "free"
    /\ mu' = "acceptor"
    /\ clients' = Attach(clients, conn)
    /\ attachedAt' = [attachedAt EXCEPT ![conn] = CallNo]
    /\ lateAttach' = IF quit THEN lateAttach + 1 ELSE lateAttach
    /\ apc' = "select"
    /\ UNCHANGED <<hubVars, idx, conn, netVars, lisVars, stdout, bcastLog,
                   recv, werr, connectedAt, accErrAt, conVars, flagVars>>

\* Variant: the acceptor attaches the sink of an accepted connection twice.
AccAttachTwice ==
    /\ apc = "attach"
    /\ mu = "free"
    /\ clients' = Attach(Attach(clients, conn), conn)
    /\ attachedAt' = [attachedAt EXCEPT ![conn] = CallNo]
    /\ lateAttach' = IF quit THEN lateAttach + 1 ELSE lateAttach
    /\ apc' = "select"
    /\ UNCHANGED <<hubVars, mu, idx, conn, netVars, lisVars, stdout, bcastLog,
                   recv, werr, connectedAt, accErrAt, conVars, flagVars>>

\* clients.Attach(func(msg string) bool {...}): the sink wrapping conn is
\* appended under the registry's lock; back to the select.
AccAttach ==
    /\ apc = "attach"
    /\ mu = "free"
    /\ clients' = Attach(clients, conn)
    /\ attachedAt' = [attachedAt EXCEPT ![conn] = CallNo]
    /\ lateAttach' = IF quit THEN lateAttach + 1 ELSE lateAttach
    /\ apc' = "select"
    /\ UNCHANGED <<hubVars, mu, idx, conn, netVars, lisVars, stdout, bcastLog,
                   recv, werr, connectedAt, accErrAt, conVars, flagVars>>

(* ---------------------- listener: listenerTeecp ----------------------- *)

\* bufio.Reader.ReadString('\n') on the bytes buf: the bytes up to and
\* including the first '\n' (found), or all of them (not found).
NewlineAt(buf) ==
    IF \E i \in 1..Len(buf) : buf[i] = NL
    THEN CHOOSE i \in 1..Len(buf) : buf[i] = NL /\ \A j \in 1..(i - 1) : buf[j] # NL
    ELSE 0

\* Variant: the line is returned without its '\n' (as bufio.Scanner does).
ReadStringStripsNewline(buf) ==
    LET i == NewlineAt(buf) IN
    IF i > 0 THEN [found |-> TRUE, txt |-> SubSeq(buf, 1, i - 1),
                   rest |-> SubSeq(buf, i + 1, Len(buf))]
             ELSE [found |-> FALSE, txt |-> buf, rest |-> <<>>]

ReadString(buf) ==
    LET i == NewlineAt(buf) IN
    IF i > 0 THEN [found |-> TRUE, txt |-> SubSeq(buf, 1, i),
                   rest |-> SubSeq(buf, i + 1, Len(buf))]
             ELSE [found |-> FALSE, txt |-> buf, rest |-> <<>>]

\* conn, err := connectSocket(port, appState), here with the default
\* waitConnection == 0 (one net.Dial): the kernel completes the connection as
\* soon as the hub listens, before any Accept; otherwise the dial is refused
\* and listenerTeecp returns the error.
\* (The listeners are interchangeable: they dial in the order of their names.)
ListenerDial(c) ==
    /\ lpc[c] = "idle"
    /\ \A d \in Conns : d < c => lpc[d] # "idle"
    /\ hpc # "exited"
    /\ IF lnOpen
       THEN /\ lpc' = [lpc EXCEPT ![c] = "connected"]
            /\ backlog' = Append(backlog, c)
            /\ hubEnd' = [hubEnd EXCEPT ![c] = "backlog"]
       ELSE /\ lpc' = [lpc EXCEPT ![c] = "refused"]
            /\ UNCHANGED <<backlog, hubEnd>>
    /\ UNCHANGED <<hubVars, regVars, accVars, wire, out, obsVars, conVars, flagVars>>

\* defer conn.Close(); reader := bufio.NewReader(conn): the listener, its
\* connection established, enters its read loop.
ListenerStart(c) ==
    /\ lpc[c] = "connected"
    /\ lpc' = [lpc EXCEPT ![c] = "reading"]
    /\ connectedAt' = [connectedAt EXCEPT ![c] = CallNo]
    /\ UNCHANGED <<hubVars, regVars, accVars, netVars, out, stdout, bcastLog,
                   recv, werr, attachedAt, accObs, conVars, flagVars>>

\* txt, err := reader.ReadString('\n') with err == nil; fmt.Fprint(os.Stdout, txt)
ListenerRead(c) ==
    /\ lpc[c] = "reading"
    /\ ReadString(wire[c]).found
    /\ out' = [out EXCEPT ![c] = Append(@, ReadString(wire[c]).txt)]
    /\ wire' = [wire EXCEPT ![c] = ReadString(wire[c]).rest]
    /\ UNCHANGED <<hubVars, regVars, accVars, backlog, hubEnd, lpc, obsVars,
                   conVars, flagVars>>

\* ReadString meets the end of the stream before a '\n': io.EOF, break,
\* return nil (what was read without a '\n' is not printed); conn.Close().
ListenerEOF(c) ==
    /\ lpc[c] = "reading"
    /\ hubEnd[c] = "closed"
    /\ ~ReadString(wire[c]).found
    /\ lpc' = [lpc EXCEPT ![c] = "eof"]
    /\ wire' = [wire EXCEPT ![c] = <<>>]
    /\ UNCHANGED <<hubVars, regVars, accVars, backlog, hubEnd, out, obsVars,
                   conVars, flagVars>>

\* The listener leaves: its connection was reset by the hub's system or cut
\* from outside (ReadString returns an error other than io.EOF and
\* listenerTeecp returns it), or its process was killed. What was in flight
\* is lost, and the hub's later writes on the connection may fail.
ListenerLeave(c) ==
    /\ Present(c)
    /\ lpc' = [lpc EXCEPT ![c] = "gone"]
    /\ wire' = [wire EXCEPT ![c] = <<>>]
    /\ UNCHANGED <<hubVars, regVars, accVars, backlog, hubEnd, out, obsVars,
                   conVars, flagVars>>

(* ------------------------ role configuration ------------------------- *)

\* time.Duration(1000000000), one second: the clock's tick.
Second == 1

\* The three appStateDescription values.
appTypeStates ==
    [undefined |-> [state |-> 0, description |-> "undefined",
                    waitConnection |-> 0, retryInterval |-> 0],
     server    |-> [state |-> 1, description |-> "server",
                    waitConnection |-> 0, retryInterval |-> 0],
     client    |-> [state |-> 2, description |-> "client",
                    waitConnection |-> 0, retryInterval |-> Second]]

\* func (s appStateDescription) isServer() bool
IsServer(s) == s.state # appTypeStates.client.state

\* No flag handled yet.
NoFlag == [name |-> "none", err |-> FALSE]

\* main after flag.Parse() left the role configuration st and main started
\* the driver st selects (the command line itself is not looked at).
FlagsParsed(st) ==
    /\ fpc = IF IsServer(st) THEN "server" ELSE "client"
    /\ serverClientSetted = st
    /\ nargs = 0 /\ lastFlag = NoFlag
    /\ givenWait = <<>> /\ givenRetry = <<>>

(* ------------------------- the hub's system --------------------------- *)

ConnectIdle ==
    /\ cpc = "off" /\ now = 0 /\ start = 0
    /\ waitConnection = 0 /\ retryInterval = 0
    /\ targetUpAt = 0 /\ targetDownAt = -1
    /\ cconn = 0 /\ cerr = FALSE /\ ret = NoResult
    /\ dials = <<>> /\ sawExpired = FALSE

\* Nothing of the hub has happened.
HubIdle ==
    /\ txt = <<>> /\ lnOpen = FALSE /\ quit = FALSE
    /\ clients = <<>> /\ mu = "free" /\ idx = 1
    /\ apc = "none" /\ conn = 0
    /\ backlog = <<>>
    /\ hubEnd = [c \in Conns |-> "none"]
    /\ wire = [c \in Conns |-> <<>>]
    /\ lpc = [c \in Conns |-> "idle"]
    /\ out = [c \in Conns |-> <<>>]
    /\ stdout = <<>> /\ bcastLog = <<>>
    /\ recv = [s \in Sinks |-> <<>>]
    /\ werr = [c \in Conns |-> FALSE]
    /\ attachedAt = [s \in Sinks |-> -1]
    /\ connectedAt = [c \in Conns |-> -1]
    /\ lateAttach = 0 /\ accErrAt = -1

HubInit == hpc = "attachLocal" /\ HubIdle

Init == HubInit /\ ConnectIdle /\ FlagsParsed(appTypeStates.server)

\* The hub's process and what it can observe of the listeners: they dial,
\* and they may leave.
HubNext ==
    \/ HubAttachLocal
    \/ HubListen
    \/ HubListenFail
    \/ HubSpawn
    \/ \E l \in Lines : HubReadLine(l)
    \/ HubReadEnd
    \/ BroadcastLock
    \/ BroadcastDeliver
    \/ BroadcastUnlock
    \/ HubCloseQuit
    \/ HubCloseLn
    \/ HubExit
    \/ AccSelect
    \/ AccAccept
    \/ AccAcceptErr
    \/ AccAttach
    \/ \E c \in Conns : ListenerDial(c)
    \/ \E c \in Conns : ListenerLeave(c)

\* The listeners' read loops. No step of the hub depends on them: a write of
\* the hub succeeds or fails by hubEnd and by the listener being there.
ListenerNext ==
    \/ \E c \in Conns : ListenerStart(c)
    \/ \E c \in Conns : ListenerRead(c)
    \/ \E c \in Conns : ListenerEOF(c)

Next == HubNext

\* The hub with its acceptor and the connections made to it.
Spec == Init /\ [][Next]_vars

StreamNext == HubNext \/ ListenerNext

\* The hub together with the listeners reading what it sends.
SpecStream == Init /\ [][StreamNext]_vars

\* The hub's goroutines are scheduled: the hub's goroutine goes through its
\* Broadcast and through its deferred calls, the acceptor takes the steps it
\* can take, and an Accept on a closed socket returns. Nothing is assumed of
\* the input, of the listeners, of an Accept on an open socket, or of the
\* moment the process ends.
FairSpec ==
    /\ Spec
    /\ WF_vars(BroadcastLock) /\ WF_vars(BroadcastDeliver)
    /\ WF_vars(BroadcastUnlock)
    /\ WF_vars(HubCloseQuit) /\ WF_vars(HubCloseLn)
    /\ WF_vars(AccSelect) /\ WF_vars(AccAttach)
    /\ WF_vars(AccAcceptErr /\ ~lnOpen)

(* ------------------------ properties of the hub ----------------------- *)

\* Broadcast call k has returned.
Completed(k) == k < CallNo \/ (k = CallNo /\ hpc \notin {"lock", "pass"})

\* The deliver invocations on sink s that belong to call k.
Deliveries(s, k) == { i \in 1..Len(recv[s]) : recv[s][i].call = k }

\* Sink s returned false in a call before call k (and was pruned).
FailedBefore(s, k) ==
    \E i \in 1..Len(recv[s]) : ~recv[s][i].ok /\ recv[s][i].call < k

\* Sink s returned false in some call.
Failed(s) == \E i \in 1..Len(recv[s]) : ~recv[s][i].ok

\* Sink s is live when call k begins: attached strictly before, not pruned.
LiveBefore(s, k) ==
    attachedAt[s] >= 0 /\ attachedAt[s] < k /\ ~FailedBefore(s, k)

\* Sink s was handed the line of call k exactly once.
OnceIn(s, k) ==
    /\ Cardinality(Deliveries(s, k)) = 1
    /\ \A i \in Deliveries(s, k) : recv[s][i].msg = bcastLog[k]

\* C1: whatever the interleaving of the acceptor's attach calls with the
\* hub's broadcast calls, a sink whose attach completed strictly before a
\* broadcast call began (and that is still live) is handed that call's line
\* exactly once by the time the call returns; that one deliver either
\* succeeds or is the sink's failure during that call.
C1_AttachedBeforeReceivesOnce ==
    \A s \in Sinks : \A k \in 1..CallNo :
        (LiveBefore(s, k) /\ Completed(k)) => OnceIn(s, k)

\* Reached: two calls have returned; one remote sink, attached before the
\* first, got both lines; another, attached between the calls, got the second.
C1_Witness ==
    /\ CallNo = 2 /\ Completed(2)
    /\ \E c, d \in Conns :
          /\ attachedAt[c] = 0 /\ attachedAt[d] = 1
          /\ Len(recv[c]) = 2 /\ recv[c][1].ok /\ recv[c][2].ok
          /\ Len(recv[d]) = 1 /\ recv[d][1].ok /\ recv[d][1].call = 2

\* C2: once a sink's deliver has returned false, deliver is never invoked on
\* it again, in the same broadcast call or a later one: a failed delivery is
\* the last entry of the sink's deliveries.
C2_NoDeliverAfterFailure ==
    \A s \in Sinks : \A i \in 1..Len(recv[s]) :
        ~recv[s][i].ok => i = Len(recv[s])

\* Reached: a sink failed in the first call, and a second call has gone
\* through its whole pass and returned without touching it.
C2_Witness ==
    /\ CallNo = 2 /\ Completed(2)
    /\ \E c \in Conns :
          /\ Len(recv[c]) = 1 /\ ~recv[c][1].ok /\ recv[c][1].call = 1
    /\ Len(recv[LocalSink]) = 2

\* C3: a broadcast call in which sinks fail still runs to its end (a pass
\* always has a next step, and returns to the input loop, never an error);
\* every other sink live at its start is handed the line exactly once; and a
\* sink whose write failed is out of the registry.
C3_FailureIsContained ==
    /\ hpc = "pass" => ENABLED (BroadcastDeliver \/ BroadcastUnlock)
    /\ \A k \in 1..CallNo :
          (Completed(k) /\ \E f \in Conns : \E i \in Deliveries(f, k) : ~recv[f][i].ok)
          => \A s \in Sinks :
                (LiveBefore(s, k) /\ \A i \in Deliveries(s, k) : recv[s][i].ok)
                => OnceIn(s, k)
    /\ \A c \in Conns : (werr[c] \/ Failed(c)) => c \notin Range(clients)

\* Reached: connections 1 and 2 were attached, in this order, before the first
\* call; in it 1 failed and was removed, its neighbour 2 and the local sink
\* got the line, and the hub is back at its input loop.
C3_Witness ==
    /\ CallNo = 1 /\ hpc = "read"
    /\ attachedAt[1] = 0 /\ attachedAt[2] = 0
    /\ Len(recv[1]) = 1 /\ ~recv[1][1].ok
    /\ Len(recv[2]) = 1 /\ recv[2][1].ok
    /\ Len(recv[LocalSink]) = 1
    /\ clients = <<LocalSink, 2>>

LinesFrom(j) == SubSeq(bcastLog, j, CallNo)

C11_FalseOnlyAfterClose ==
    \A c \in Conns :
        /\ Failed(c) => (hubEnd[c] = "closed" /\ c \notin Range(clients))
        /\ (hubEnd[c] = "closed" /\ hpc # "exited") => (werr[c] /\ Failed(c))

\* Reached: the hub is at its input loop; the sink of one connection failed
\* and closed it; the listener of another has left, a write to it went
\* through all the same, and that connection is still open.
C11_Witness ==
    /\ hpc = "read"
    /\ \E c, d \in Conns :
          /\ c # d
          /\ Failed(c) /\ hubEnd[c] = "closed"
          /\ lpc[d] = "gone" /\ hubEnd[d] = "open"
          /\ Len(recv[d]) >= 1 /\ d \in Range(clients)

\* The acceptor's loop has ended.
AccEnded == apc \in {"done", "dead"}

\* C12: the acceptor looks at quit before each Accept: an iteration that
\* finds quit closed ends the loop, an ended loop accepts and attaches
\* nothing, and so at most one sink is attached after quit was closed.
C12_QuitStopsAccepting ==
    /\ [](lateAttach <= 1)
    /\ [][((quit /\ apc = "select") => apc' \in {"select", "done", "dead"})
          /\ (AccEnded => (apc' \in {"done", "dead"}
                           /\ attachedAt' = attachedAt
                           /\ conn' = conn))]_vars

\* Reached: the acceptor was past its select when quit was closed, attached
\* the connection it accepted, found quit closed and ended its loop.
C12_Witness ==
    /\ quit /\ lateAttach = 1 /\ apc = "done"
    /\ \E c \in Conns : attachedAt[c] = CallNo /\ c \in Range(clients)

\* C13: after an Accept error the acceptor's loop has ended and attaches no
\* sink; the hub's Broadcast goes on: a call under way has a next step, and a
\* call begun after the error hands its line exactly once to every sink live
\* at its start.
C13_AcceptErrorEndsAcceptorOnly ==
    /\ [](accErrAt >= 0 =>
            /\ hpc \in {"lock", "pass"} =>
                  ENABLED (BroadcastLock \/ BroadcastDeliver \/ BroadcastUnlock)
            /\ \A k \in (accErrAt + 1)..CallNo : Completed(k) =>
                  \A s \in Sinks : LiveBefore(s, k) => OnceIn(s, k))
    /\ [][accErrAt >= 0 => (AccEnded /\ apc' \in {"done", "dead"}
                            /\ attachedAt' = attachedAt
                            /\ Len(clients') <= Len(clients))]_vars

\* Reached: Accept failed before the first call while a connection waited in
\* the backlog; two calls have returned since, a sink attached earlier got
\* both lines, and the waiting connection was never attached.
C13_Witness ==
    /\ accErrAt = 0 /\ apc = "done" /\ ~quit
    /\ CallNo = 2 /\ Completed(2)
    /\ \E c, d \in Conns :
          /\ attachedAt[c] = 0
          /\ Len(recv[c]) = 2 /\ recv[c][1].ok /\ recv[c][2].ok
          /\ hubEnd[d] = "backlog" /\ attachedAt[d] = -1

C18_LocalSinkAlways ==
    /\ (apc # "none" \/ lnOpen \/ CallNo >= 1) => attachedAt[LocalSink] = 0
    /\ hpc # "attachLocal" => LocalSink \in Range(clients)
    /\ ~Failed(LocalSink)
    /\ IsPrefix(stdout, bcastLog)
    /\ Len(stdout) >= CallNo - 1
    /\ Completed(CallNo) => stdout = bcastLog
    /\ \A k \in 1..CallNo : Completed(k) => OnceIn(LocalSink, k)

\* Reached: two calls have returned; every remote sink has failed and the
\* local echo sink, alone in the registry, has printed both lines.
C18_Witness ==
    /\ CallNo = 2 /\ hpc = "read"
    /\ \E c \in Conns : Failed(c)
    /\ clients = <<LocalSink>>
    /\ stdout = bcastLog

\* C19: leaving its input loop the hub closes quit, then its listening
\* socket; an Accept on the closed socket can only return its error; from
\* then on nothing is broadcast; and the acceptor's loop ends.
C19_AcceptorEnds ==
    /\ [](/\ quit => hpc \in {"closeLn", "return", "exited"}
          /\ hpc = "closeLn" => (quit /\ lnOpen)
          /\ (quit /\ hpc # "closeLn") => ~lnOpen
          /\ (apc = "accept" /\ quit /\ ~lnOpen) =>
                (~ENABLED AccAccept /\ ENABLED AccAcceptErr))
    /\ [][(hpc \in {"closeQuit", "closeLn", "return", "exited"}) =>
            (bcastLog' = bcastLog /\ recv' = recv /\ stdout' = stdout)]_vars
    /\ (hpc = "closeQuit") ~> AccEnded

\* Reached: the hub has closed quit and its socket and has not exited; the
\* acceptor is still in the Accept it began before.
C19_Witness ==
    /\ hpc = "return" /\ quit /\ ~lnOpen
    /\ apc = "accept"
    /\ CallNo >= 1

(* -------------------- retry connector: connectSocket ------------------ *)

\* The target accepts a connection attempted at time t.
TargetUp(t) ==
    /\ targetUpAt >= 0
    /\ t >= targetUpAt
    /\ targetDownAt >= 0 => t < targetDownAt

\* Variants of the break condition: a budget equal to the interval stops the
\* loop; the test of a zero budget is missing; the test of a budget below
\* the interval is missing.
StopConditionOffByOne(w, r, elapsed) == w = 0 \/ elapsed > w \/ w <= r
StopConditionNoZeroTest(w, r, elapsed) == elapsed > w \/ w < r
StopConditionNoIntervalTest(w, r, elapsed) == w = 0 \/ elapsed > w

\* The break condition of the loop, checked after each net.Dial.
StopCondition(w, r, elapsed) == w = 0 \/ elapsed > w \/ w < r

\* Variant: a failed attempt leaves the variable conn as it was.
DialResultKeepsConn(ok, id) == [conn |-> IF ok THEN id ELSE cconn, err |-> ~ok]

\* conn, err = net.Dial(...): both variables are assigned by every attempt.
DialResult(ok, id) == [conn |-> IF ok THEN id ELSE 0, err |-> ~ok]

\* return conn, err
ReturnValue(c, e) == [conn |-> c, err |-> e, returned |-> TRUE]

\* start := time.Now()
ConnStart ==
    /\ cpc = "start"
    /\ start' = now
    /\ cpc' = "dial"
    /\ UNCHANGED <<now, waitConnection, retryInterval, targetUpAt, targetDownAt,
                   cconn, cerr, ret, dials, sawExpired>>
    /\ UNCHANGED <<hubVars, regVars, accVars, netVars, lisVars, obsVars, flagVars>>

\* conn, err = net.Dial("tcp", "localhost:port"). The loopback decides the
\* attempt when it starts: a closed port refuses at once, an accepted
\* connection takes up to MaxDialTime.
ConnDial ==
    /\ cpc = "dial"
    /\ Len(dials) < MaxAttempts
    /\ LET ok == TargetUp(now)
           res == DialResult(ok, Len(dials) + 1) IN
       /\ cconn' = res.conn
       /\ cerr' = res.err
       /\ dials' = Append(dials, ok)
       /\ \E d \in 0..MaxDialTime :
             /\ ~ok => d = 0
             /\ now' = now + d
    /\ cpc' = "check"
    /\ UNCHANGED <<start, waitConnection, retryInterval, targetUpAt,
                   targetDownAt, ret, sawExpired>>
    /\ UNCHANGED <<hubVars, regVars, accVars, netVars, lisVars, obsVars, flagVars>>

\* if waitConnection == 0 || time.Since(start) > waitConnection ||
\*    waitConnection < retryInterval { break } ... return conn, err
\* otherwise: report err if any, report the wait, go to sleep.
ConnCheck ==
    /\ cpc = "check"
    /\ sawExpired' = (sawExpired \/ now - start > waitConnection)
    /\ IF StopCondition(waitConnection, retryInterval, now - start)
       THEN /\ ret' = ReturnValue(cconn, cerr)
            /\ cpc' = "returned"
       ELSE /\ cpc' = "sleep"
            /\ UNCHANGED ret
    /\ UNCHANGED <<now, start, waitConnection, retryInterval, targetUpAt,
                   targetDownAt, cconn, cerr, dials>>
    /\ UNCHANGED <<hubVars, regVars, accVars, netVars, lisVars, obsVars, flagVars>>

\* Variant: the connector dials again without sleeping.
ConnSleepSkipped ==
    /\ cpc = "sleep"
    /\ cpc' = "dial"
    /\ UNCHANGED <<now, start, waitConnection, retryInterval, targetUpAt,
                   targetDownAt, cconn, cerr, ret, dials, sawExpired>>
    /\ UNCHANGED <<hubVars, regVars, accVars, netVars, lisVars, obsVars, flagVars>>

\* time.Sleep(retryInterval): at least retryInterval (at once when it is
\* zero or negative), and up to MaxOversleep more.
ConnSleep ==
    /\ cpc = "sleep"
    /\ \E o \in 0..MaxOversleep :
          now' = now + (IF retryInterval > 0 THEN retryInterval ELSE 0) + o
    /\ cpc' = "dial"
    /\ UNCHANGED <<start, waitConnection, retryInterval, targetUpAt,
                   targetDownAt, cconn, cerr, ret, dials, sawExpired>>
    /\ UNCHANGED <<hubVars, regVars, accVars, netVars, lisVars, obsVars, flagVars>>

\* Durations time.ParseDuration can produce, negative ones included.
WaitValues == (-1)..MaxWait
IntervalValues == (-1)..MaxInterval
TargetTimes == (-1)..MaxTargetTime

InitConnect ==
    /\ HubInit
    /\ cpc = "start" /\ now = 0 /\ start = 0
    /\ waitConnection \in WaitValues
    /\ retryInterval \in IntervalValues
    /\ targetUpAt \in TargetTimes
    /\ targetDownAt \in TargetTimes
    /\ cconn = 0 /\ cerr = FALSE /\ ret = NoResult
    /\ dials = <<>> /\ sawExpired = FALSE
    /\ FlagsParsed([appTypeStates.client EXCEPT
                        !.waitConnection = waitConnection,
                        !.retryInterval = retryInterval])

NextConnect ==
    \/ ConnStart
    \/ ConnDial
    \/ ConnCheck
    \/ ConnSleep

SpecConnect == InitConnect /\ [][NextConnect]_vars

\* The connector runs alone in the listener's process: a step that can be
\* taken is taken.
FairSpecConnect == SpecConnect /\ WF_vars(NextConnect)

(* ----------------------- command line: main --------------------------- *)

\* The number of flags on a command line.
MaxArgs == 3

\* The values given to --wait-connection and --retry-interval, as characters:
\* a bare flag (BoolFunc passes "true"), "", "2", "3s", "-1s", "abc".
True == <<"t", "r", "u", "e">>
ArgValues == { True, <<>>, <<"2">>, <<"3", "s">>, <<"-", "1", "s">>,
               <<"a", "b", "c">> }

Digits == {"0", "1", "2", "3"}

DigitValue(ch) == CASE ch = "0" -> 0 [] ch = "1" -> 1 [] ch = "2" -> 2
                    [] ch = "3" -> 3

\* regexp.MatchString("^\\d*$", s)
MatchesDigits(s) == \A i \in 1..Len(s) : s[i] \in Digits

\* The decimal number written by the digits ds.
RECURSIVE Decimal(_)
Decimal(ds) ==
    IF ds = <<>> THEN 0
    ELSE 10 * Decimal(SubSeq(ds, 1, Len(ds) - 1)) + DigitValue(ds[Len(ds)])

\* The length of the run of digits s begins with.
LeadingDigits(s) ==
    IF \E i \in 1..Len(s) : s[i] \notin Digits
    THEN (CHOOSE i \in 1..Len(s) :
              s[i] \notin Digits /\ \A j \in 1..(i - 1) : s[j] \in Digits) - 1
    ELSE Len(s)

\* time.ParseDuration(s), in seconds, for whole numbers of seconds: an
\* optional sign, then "0", or digits followed by the unit "s".
ParseDuration(s) ==
    LET signed == s # <<>> /\ s[1] \in {"-", "+"}
        neg    == s # <<>> /\ s[1] = "-"
        body   == IF signed THEN Tail(s) ELSE s
        n      == LeadingDigits(body)
        val    == Decimal(SubSeq(body, 1, n))
    IN  IF body = <<"0">> THEN [err |-> FALSE, d |-> 0]
        ELSE IF n > 0 /\ SubSeq(body, n + 1, Len(body)) = <<"s">>
             THEN [err |-> FALSE, d |-> (IF neg THEN 0 - val ELSE val) * Second]
             ELSE [err |-> TRUE, d |-> 0]

\* func parseDurationOption(s string) (time.Duration, error)
ParseDurationOption(s) ==
    ParseDuration(IF MatchesDigits(s) THEN s \o <<"s">> ELSE s)

\* Variant: a role flag replaces whatever role was defined.
DefineStateNoGuard(desiredVal, currAppState) ==
    [err |-> FALSE, st |-> desiredVal]

\* func defineState(desiredVal, currAppState): the closure's result and what
\* it leaves in *currAppState.
DefineState(desiredVal, currAppState) ==
    IF currAppState.state # appTypeStates.undefined.state
    THEN [err |-> TRUE, st |-> currAppState]
    ELSE [err |-> FALSE, st |-> desiredVal]

\* func setWaitConnectionState(appState): the closure, called with s.
SetWaitConnectionState(s, appState) ==
    LET r == ParseDurationOption(IF s = True THEN <<"1", "s">> ELSE s)
    IN  IF r.err THEN [err |-> TRUE, st |-> appState, d |-> <<>>]
        ELSE [err |-> FALSE, d |-> <<r.d>>,
              st |-> [appState EXCEPT !.waitConnection = r.d]]

\* func setRetryIntervalState(appState): the closure, called with s.
SetRetryIntervalState(s, appState) ==
    LET r == ParseDurationOption(IF s = True THEN <<"1", "s">> ELSE s)
    IN  IF r.err THEN [err |-> TRUE, st |-> appState, d |-> <<>>]
        ELSE [err |-> FALSE, d |-> <<r.d>>,
              st |-> [appState EXCEPT !.retryInterval = r.d]]

\* flag.Parse() handles one flag: it calls the flag's function, and on an
\* error prints it and exits (flag.CommandLine is flag.ExitOnError).
Handled(name, res) ==
    /\ fpc = "parse"
    /\ nargs < MaxArgs
    /\ nargs' = nargs + 1
    /\ serverClientSetted' = res.st
    /\ lastFlag' = [name |-> name, err |-> res.err]
    /\ fpc' = IF res.err THEN "exit" ELSE "parse"
    /\ UNCHANGED <<hubVars, regVars, accVars, netVars, lisVars, obsVars, conVars>>

\* --server
FlagServer ==
    /\ Handled("server", DefineState(appTypeStates.server, serverClientSetted))
    /\ UNCHANGED <<givenWait, givenRetry>>

\* --client
FlagClient ==
    /\ Handled("client", DefineState(appTypeStates.client, serverClientSetted))
    /\ UNCHANGED <<givenWait, givenRetry>>

\* --wait-connection, --wait-connection=s
FlagWaitConnection(s) ==
    LET res == SetWaitConnectionState(s, serverClientSetted) IN
    /\ Handled("wait-connection", res)
    /\ givenWait' = IF res.err THEN givenWait ELSE res.d
    /\ UNCHANGED givenRetry

\* --retry-interval, --retry-interval=s
FlagRetryInterval(s) ==
    LET res == SetRetryIntervalState(s, serverClientSetted) IN
    /\ Handled("retry-interval", res)
    /\ givenRetry' = IF res.err THEN givenRetry ELSE res.d
    /\ UNCHANGED givenWait

\* flag.Parse() returns; main starts serverTeecp(port) when isServer(), else
\* listenerTeecp(port, serverClientSetted), which calls connectSocket with it.
MainRun ==
    /\ fpc = "parse"
    /\ IF IsServer(serverClientSetted)
       THEN /\ fpc' = "server"
            /\ hpc' = "attachLocal"
            /\ UNCHANGED <<cpc, waitConnection, retryInterval>>
       ELSE /\ fpc' = "client"
            /\ cpc' = "start"
            /\ waitConnection' = serverClientSetted.waitConnection
            /\ retryInterval' = serverClientSetted.retryInterval
            /\ UNCHANGED hpc
    /\ UNCHANGED <<txt, lnOpen, quit, regVars, accVars, netVars, lisVars,
                   obsVars, now, start, targetUpAt, targetDownAt, cconn, cerr,
                   ret, dials, sawExpired, serverClientSetted, nargs, lastFlag,
                   givenWait, givenRetry>>

\* serverClientSetted := appTypeStates.undefined, before flag.Parse()
InitFlags ==
    /\ hpc = "off" /\ HubIdle
    /\ ConnectIdle
    /\ fpc = "parse"
    /\ serverClientSetted = appTypeStates.undefined
    /\ nargs = 0 /\ lastFlag = NoFlag
    /\ givenWait = <<>> /\ givenRetry = <<>>

NextFlags ==
    \/ FlagServer
    \/ FlagClient
    \/ \E s \in ArgValues : FlagWaitConnection(s)
    \/ \E s \in ArgValues : FlagRetryInterval(s)
    \/ MainRun

\* main from its first statement to the start of a driver.
SpecFlags == InitFlags /\ [][NextFlags]_vars

(* ----------------------- command line: properties --------------------- *)

\* C14: once the role is server or client, an attempt to set a role (a
\* --server or --client flag) returns an error, after which the program
\* exits, and leaves the role configuration as it was.
C14_RoleSetOnce ==
    [][(/\ serverClientSetted.state # appTypeStates.undefined.state
        /\ nargs' = nargs + 1
        /\ lastFlag'.name \in {"server", "client"})
       => (/\ lastFlag'.err
           /\ fpc' = "exit"
           /\ serverClientSetted' = serverClientSetted)]_vars

\* A client with a wait of 2 s was asked to become a server, and is still
\* that client.
C14_Witness ==
    /\ fpc = "exit"
    /\ lastFlag = [name |-> "server", err |-> TRUE]
    /\ serverClientSetted = [appTypeStates.client EXCEPT !.waitConnection = 2]

\* C15: with the role undefined when flag parsing has ended, neither the
\* hub nor the listener is started.
C15_UndefinedRoleRejected ==
    (fpc \notin {"parse"}
        /\ serverClientSetted.state = appTypeStates.undefined.state)
    => (hpc = "off" /\ cpc = "off")

\* C20: the listener's connectSocket runs with the wait budget and the retry
\* interval the command line gave, whatever the order of the flags.
C20_BudgetsAsGiven ==
    fpc = "client" =>
        /\ givenWait # <<>> => waitConnection = givenWait[1]
        /\ givenRetry # <<>> => retryInterval = givenRetry[1]


(* ------------------- properties of the retry connector ---------------- *)

LastDial == dials[Len(dials)]

\* C5: within one connect call no dial attempt follows a successful one, so
\* at most one connection is established (every attempt but the last failed).
C5_NoDialAfterSuccess ==
    \A i \in 1..Len(dials) : dials[i] => i = Len(dials)

\* The case of C6: the budget is at least the positive interval, and the
\* target rejects until a time before the budget ends and accepts from then on.
C6_Case ==
    /\ retryInterval > 0
    /\ waitConnection >= retryInterval
    /\ targetUpAt >= 0
    /\ targetUpAt < waitConnection
    /\ targetDownAt = -1

\* C6: in that case connect eventually returns a connection and no error.
C6_EventuallyConnected ==
    C6_Case => <>(ret.returned /\ ~ret.err /\ ret.conn # 0)

\* Reached: connect returned a connection after at least one refused attempt.
C6_Witness ==
    /\ C6_Case
    /\ targetUpAt > 0
    /\ ret.returned /\ ~ret.err
    /\ Len(dials) >= 2 /\ ~dials[1]

\* One dial attempt and then the return: never a second attempt, never a
\* sleep, and exactly one attempt made when connect has returned.
OneAttempt ==
    /\ Len(dials) <= 1
    /\ cpc # "sleep"
    /\ ret.returned => Len(dials) = 1

\* C7: with waitConnection == 0 connect makes exactly one dial attempt and
\* returns, whatever the interval and the outcome of the dial.
C7_ZeroBudgetOneAttempt == waitConnection = 0 => OneAttempt

\* Reached: a zero budget with an interval that is not above it, returned
\* after a refused dial.
C7_Witness ==
    /\ waitConnection = 0 /\ retryInterval <= 0
    /\ ret.returned /\ ret.err /\ Len(dials) = 1

\* C8: with waitConnection < retryInterval connect makes exactly one dial
\* attempt and returns, whatever the outcome of the dial.
C8_SmallBudgetOneAttempt == waitConnection < retryInterval => OneAttempt

\* Reached: a positive budget below the interval, not yet used up when
\* connect returned after its one refused dial.
C8_Witness ==
    /\ 0 < waitConnection /\ waitConnection < retryInterval
    /\ now - start <= waitConnection
    /\ ret.returned /\ ret.err /\ Len(dials) = 1

\* C9: what connect returns is the result of its last dial attempt: an error
\* exactly when that attempt failed, and the connection that attempt made.
C9_ReturnsLastDial ==
    ret.returned =>
        /\ Len(dials) >= 1
        /\ ret.err = ~LastDial
        /\ ret.conn = IF LastDial THEN Len(dials) ELSE 0

\* Reached: connect returned the error of a last, refused attempt that
\* followed an accepted one.
C9_Witness ==
    /\ ret.returned /\ ret.err /\ ret.conn = 0
    /\ \E i \in 1..Len(dials) : dials[i]

\* The budgets of the claim: no negative wait, a positive interval.
C17_Case == waitConnection >= 0 /\ retryInterval > 0

\* C17: with a wait W >= 0 and an interval R > 0, connectSocket makes at
\* most W / R + 2 dials (rounded down), makes none after a check saw the
\* wait exceeded, and returns.
C17_BoundedAttempts ==
    /\ [](C17_Case => /\ Len(dials) <= (waitConnection \div retryInterval) + 2
                      /\ sawExpired => ret.returned)
    /\ [][(C17_Case /\ sawExpired) => dials' = dials]_vars
    /\ C17_Case ~> ret.returned

\* Reached: with W = R, a third dial was made, at 2 R, and the connector
\* returned after it.
C17_Witness ==
    /\ C17_Case /\ waitConnection = retryInterval
    /\ ret.returned /\ sawExpired
    /\ Len(dials) = 3

====
